---- MODULE Spec2Model ----
(***************************************************************************)
(* Model of scripts/import_swagger_to_cue.py: the swagger-to-CUE importer. *)
(*                                                                         *)
(* Text is modelled as a sequence of one-character strings, so that the    *)
(* regular-expression substitutions, title-casing, prefix tests and        *)
(* substring searches of the script are computed character by character.   *)
(* JSON values are tagged records [t |-> kind, v |-> payload]; a JSON      *)
(* object is an ordered sequence of <<key, value>> pairs (Python dicts     *)
(* keep insertion order).  A Python call that may raise returns a record   *)
(* [exc |-> "none" or the exception name, val |-> result].                 *)
(***************************************************************************)
EXTENDS Integers, Sequences, FiniteSets, TLC

VARIABLES
    pc,            \* position of main(): "start", "compiled_main", "w_domain", ...
    doc_main,      \* content of MAIN_SWAGGER (chosen at Init)
    doc_search,    \* content of SEARCH_SWAGGER (chosen at Init)
    res_main,      \* (schemas, ops, public_ops) returned for the primary document
    res_search,    \* (schemas, ops, public_ops) returned for the secondary document
    files,         \* the four output files: state and content
    error,         \* the exception that ended main() and where, or NoError
    used,          \* Namer scenario: the shared NameRegistry (sequence of <<name, counter>>)
    calls,         \* Namer scenario: history of op_name_from calls
    fn,            \* pure-function scenario: which function was applied
    arg,           \* pure-function scenario: the input
    out            \* pure-function scenario: the result

vars == <<pc, doc_main, doc_search, res_main, res_search, files, error,
          used, calls, fn, arg, out>>

mainVars == <<pc, doc_main, doc_search, res_main, res_search, files, error>>
namerVars == <<used, calls>>
pureVars == <<fn, arg, out>>

----------------------------------------------------------------------------
(* Characters and text                                                     *)

Digits == <<"0","1","2","3","4","5","6","7","8","9">>
UpperCase == <<"A","B","C","D","E","F","G","H","I","J","K","L","M",
               "N","O","P","Q","R","S","T","U","V","W","X","Y","Z">>
LowerCase == <<"a","b","c","d","e","f","g","h","i","j","k","l","m",
               "n","o","p","q","r","s","t","u","v","w","x","y","z">>

Range(s) == {s[i] : i \in DOMAIN s}

IndexOf(c, s) == CHOOSE i \in DOMAIN s : s[i] = c

IsDigit(c) == c \in Range(Digits)
IsUpper(c) == c \in Range(UpperCase)
IsLower(c) == c \in Range(LowerCase)
IsCased(c) == IsUpper(c) \/ IsLower(c)
\* the character class [0-9A-Za-z]
IsAlnum(c) == IsDigit(c) \/ IsCased(c)

ToUpper(c) == IF IsLower(c) THEN UpperCase[IndexOf(c, LowerCase)] ELSE c
ToLower(c) == IF IsUpper(c) THEN LowerCase[IndexOf(c, UpperCase)] ELSE c

\* code point order restricted to [0-9A-Za-z]
Ord(c) == IndexOf(c, Digits \o UpperCase \o LowerCase)

\* str.lower()
Lower(s) == [i \in DOMAIN s |-> ToLower(s[i])]

\* str.title(): a cased character is upper-cased when the previous character
\* is not cased, lower-cased otherwise
Title(s) ==
    [i \in DOMAIN s |->
        IF i > 1 /\ IsCased(s[i - 1]) THEN ToLower(s[i]) ELSE ToUpper(s[i])]

RECURSIVE DropNonAlnum(_)
DropNonAlnum(s) ==
    IF s = <<>> \/ IsAlnum(Head(s)) THEN s ELSE DropNonAlnum(Tail(s))

\* re.sub(r"[^0-9A-Za-z]+", rep, s)
RECURSIVE SubNonAlnum(_, _)
SubNonAlnum(rep, s) ==
    IF s = <<>> THEN <<>>
    ELSE IF IsAlnum(Head(s)) THEN <<Head(s)>> \o SubNonAlnum(rep, Tail(s))
    ELSE rep \o SubNonAlnum(rep, DropNonAlnum(s))

\* str.replace(c, rep) for a one-character pattern
RECURSIVE ReplaceChar(_, _, _)
ReplaceChar(s, c, rep) ==
    IF s = <<>> THEN <<>>
    ELSE (IF Head(s) = c THEN rep ELSE <<Head(s)>>) \o ReplaceChar(Tail(s), c, rep)

RECURSIVE LStrip(_, _)
LStrip(s, c) == IF s # <<>> /\ Head(s) = c THEN LStrip(Tail(s), c) ELSE s

RECURSIVE RStrip(_, _)
RStrip(s, c) ==
    IF s # <<>> /\ s[Len(s)] = c THEN RStrip(SubSeq(s, 1, Len(s) - 1), c) ELSE s

\* str.strip(c)
Strip(s, c) == RStrip(LStrip(s, c), c)

\* str.startswith(p)
StartsWith(s, p) == Len(s) >= Len(p) /\ SubSeq(s, 1, Len(p)) = p

\* `needle in hay` for two strings
Contains(hay, needle) ==
    \E i \in 0..(Len(hay) - Len(needle)) :
        SubSeq(hay, i + 1, i + Len(needle)) = needle

\* s.split(sep, maxsplit)[-1] for a one-character separator
RECURSIVE SplitLast(_, _, _)
SplitLast(s, sep, maxsplit) ==
    IF maxsplit = 0 \/ sep \notin Range(s) THEN s
    ELSE SplitLast(SubSeq(s, IndexOf(sep, s) + 1, Len(s)), sep, maxsplit - 1)

\* str(n) for n >= 0
RECURSIVE Str(_)
Str(n) == IF n < 10 THEN <<Digits[n + 1]>> ELSE Str(n \div 10) \o <<Digits[(n % 10) + 1]>>

\* sep.join(parts)
RECURSIVE Join(_, _)
Join(sep, parts) ==
    IF parts = <<>> THEN <<>>
    ELSE IF Len(parts) = 1 THEN parts[1]
    ELSE parts[1] \o sep \o Join(sep, Tail(parts))

\* "  " * n
RECURSIVE Spaces(_)
Spaces(n) == IF n <= 0 THEN <<>> ELSE <<" ", " ">> \o Spaces(n - 1)

\* s < t in Python's string order, for texts over [0-9A-Za-z]
RECURSIVE TextLess(_, _)
TextLess(s, t) ==
    IF t = <<>> THEN FALSE
    ELSE IF s = <<>> THEN TRUE
    ELSE IF Head(s) = Head(t) THEN TextLess(Tail(s), Tail(t))
    ELSE Ord(Head(s)) < Ord(Head(t))

----------------------------------------------------------------------------
(* Text literals of the script                                             *)

tRef == <<"$","r","e","f">>
tAllOf == <<"a","l","l","O","f">>
tOneOf == <<"o","n","e","O","f">>
tAnyOf == <<"a","n","y","O","f">>
tType == <<"t","y","p","e">>
tItems == <<"i","t","e","m","s">>
tProperties == <<"p","r","o","p","e","r","t","i","e","s">>
tRequired == <<"r","e","q","u","i","r","e","d">>
tAdditionalProperties ==
    <<"a","d","d","i","t","i","o","n","a","l","P","r","o","p","e","r","t","i","e","s">>
tArray == <<"a","r","r","a","y">>
tObject == <<"o","b","j","e","c","t">>
tInteger == <<"i","n","t","e","g","e","r">>
tNumber == <<"n","u","m","b","e","r">>
tBoolean == <<"b","o","o","l","e","a","n">>
tString == <<"s","t","r","i","n","g">>
tInt == <<"i","n","t">>
tBool == <<"b","o","o","l">>
tSchema == <<"s","c","h","e","m","a">>
tSchemaUnderscore == <<"s","c","h","e","m","a","_">>
tDomainDot == <<"d","o","m","a","i","n",".">>
tComponentsSchemas ==
    <<"#","/","c","o","m","p","o","n","e","n","t","s","/","s","c","h","e","m","a","s","/">>
tUnknown == <<"_">>
tEmptyRecord == <<"{","}">>
tAnd == <<" ","&"," ">>
tOr == <<" ","|"," ">>
tOpenMapKey == <<"[","s","t","r","i","n","g","]",":"," ">>
tBodyField == <<"{","\n"," "," ","b","o","d","y",":"," ">>
NL == <<"\n">>

----------------------------------------------------------------------------
(* JSON values and Python results                                          *)

JNull == [t |-> "null", v |-> <<>>]
JBool(b) == [t |-> "bool", v |-> b]
JStr(s) == [t |-> "str", v |-> s]
JList(xs) == [t |-> "list", v |-> xs]
JDict(pairs) == [t |-> "dict", v |-> pairs]
EmptyDict == JDict(<<>>)

Ok(v) == [exc |-> "none", val |-> v]
Raise(e) == [exc |-> e, val |-> <<>>]

\* `v = e; F(v)`: e is evaluated once and F is applied to its value
Let(e, F(_)) == CHOOSE y \in {F(v) : v \in {e}} : TRUE

\* `v = e` where e may raise: the exception propagates, otherwise F(v)
Try(e, F(_)) == Let(e, LAMBDA r : IF r.exc # "none" THEN r ELSE F(r.val))

\* bool(x): None, False, "", [] and {} are falsy
Truthy(x) ==
    CASE x.t = "null" -> FALSE
      [] x.t = "bool" -> x.v
      [] OTHER -> x.v # <<>>

\* dict key lookup helpers (d is a JSON dict)
HasKey(d, k) == \E i \in DOMAIN d.v : d.v[i][1] = k
Lookup(d, k) == d.v[CHOOSE i \in DOMAIN d.v : d.v[i][1] = k][2]
\* d.get(k, default)
GetOr(d, k, default) == IF HasKey(d, k) THEN Lookup(d, k) ELSE default

\* `k in x` where k is a Python string: key membership for a dict, substring
\* for a string, element membership for a list, TypeError otherwise
PyIn(k, x) ==
    CASE x.t = "dict" -> Ok(HasKey(x, k))
      [] x.t = "str" -> Ok(Contains(x.v, k))
      [] x.t = "list" -> Ok(\E i \in DOMAIN x.v : x.v[i] = JStr(k))
      [] OTHER -> Raise("TypeError")

\* the sequence a `for` loop over x visits
PyIter(x) ==
    CASE x.t = "list" -> Ok(x.v)
      [] x.t = "dict" -> Ok([i \in DOMAIN x.v |-> JStr(x.v[i][1])])
      [] x.t = "str" -> Ok([i \in DOMAIN x.v |-> JStr(<<x.v[i]>>)])
      [] OTHER -> Raise("TypeError")

----------------------------------------------------------------------------
(* Identifier Normalizer and reference resolution                          *)

cue_ident(name) ==
    LET s1 == Strip(SubNonAlnum(<<"_">>, name), "_")
        s2 == IF s1 = <<>> THEN tSchema ELSE s1
    IN  IF IsDigit(s2[1]) THEN tSchemaUnderscore \o s2 ELSE s2

\* mutant: the text after the last "/" of any reference
ref_to_ident_last_segment(ref) ==
    cue_ident(SplitLast(ref, "/", Len(ref)))

ref_to_ident(ref) ==
    IF StartsWith(ref, tComponentsSchemas)
    THEN cue_ident(SplitLast(ref, "/", 3))
    ELSE cue_ident(ref)

----------------------------------------------------------------------------
(* Schema Type Translator                                                  *)

RECURSIVE schema_type(_, _, _)
RECURSIVE TranslateAll(_, _, _)
RECURSIVE FieldLines(_, _, _, _)

\* [schema_type(s, indent, domain_prefix) for s in children]
TranslateAll(children, indent, domain_prefix) ==
    IF children = <<>> THEN Ok(<<>>)
    ELSE Try(schema_type(Head(children), indent, domain_prefix), LAMBDA first :
         Try(TranslateAll(Tail(children), indent, domain_prefix), LAMBDA rest :
         Ok(<<first>> \o rest)))

\* the loop over props.items(): one rendered line per declared field
FieldLines(props, required, indent, domain_prefix) ==
    IF props = <<>> THEN Ok(<<>>)
    ELSE LET name == Head(props)[1]
             prop == Head(props)[2]
             field_name == cue_ident(name)
             opt == IF JStr(name) \in required THEN <<>> ELSE <<"?">>
         IN  Try(schema_type(prop, indent + 1, domain_prefix), LAMBDA field_type :
             Try(FieldLines(Tail(props), required, indent, domain_prefix), LAMBDA rest :
             Ok(<<Spaces(indent + 1) \o field_name \o opt
                    \o <<":", " ">> \o field_type>> \o rest)))

\* the composition branches: sep.join of the translated children
Composition(schema, key, sep, indent, domain_prefix) ==
    IF schema.t # "dict" THEN Raise("TypeError")
    ELSE Try(PyIter(Lookup(schema, key)), LAMBDA children :
         Try(TranslateAll(children, indent, domain_prefix), LAMBDA parts :
         Ok(Join(sep, parts))))

\* the object branch of schema_type (lines 62-77)
ObjectType(schema, indent, domain_prefix) ==
    LET props == GetOr(schema, tProperties, EmptyDict)
        additional == GetOr(schema, tAdditionalProperties, JNull)
    IN  Try(PyIter(GetOr(schema, tRequired, JList(<<>>))), LAMBDA required :
        IF ~Truthy(props) /\ Truthy(additional)
        THEN Try(schema_type(additional, indent, domain_prefix), LAMBDA add_type :
             Ok(<<"{">> \o NL \o Spaces(indent + 1) \o tOpenMapKey
                 \o add_type \o NL \o Spaces(indent) \o <<"}">>))
        ELSE IF ~Truthy(props) THEN Ok(tEmptyRecord)
        ELSE IF props.t # "dict" THEN Raise("AttributeError")
        ELSE Try(FieldLines(props.v, Range(required), indent, domain_prefix),
                 LAMBDA lines :
             Ok(Join(NL, <<<<"{">>>> \o lines \o <<Spaces(indent) \o <<"}">>>>))))

schema_type(schema, indent, domain_prefix) ==
    IF ~Truthy(schema) THEN Ok(tUnknown)
    ELSE Try(PyIn(tRef, schema), LAMBDA has_ref :
    IF has_ref
    THEN IF schema.t # "dict" THEN Raise("TypeError")
         ELSE IF Lookup(schema, tRef).t # "str" THEN Raise("AttributeError")
         ELSE Let(ref_to_ident(Lookup(schema, tRef).v), LAMBDA ident :
              Ok(IF domain_prefix THEN tDomainDot \o ident ELSE ident))
    ELSE IF PyIn(tAllOf, schema).val
    THEN Composition(schema, tAllOf, tAnd, indent, domain_prefix)
    ELSE IF PyIn(tOneOf, schema).val
    THEN Composition(schema, tOneOf, tOr, indent, domain_prefix)
    ELSE IF PyIn(tAnyOf, schema).val
    THEN Composition(schema, tAnyOf, tOr, indent, domain_prefix)
    ELSE IF schema.t # "dict" THEN Raise("AttributeError")
    ELSE LET typ == GetOr(schema, tType, JNull)
         IN  IF typ = JStr(tArray)
             THEN Try(schema_type(GetOr(schema, tItems, EmptyDict),
                                  indent, domain_prefix), LAMBDA items :
                  Ok(<<"[", ".", ".", ".">> \o items \o <<"]">>))
             ELSE IF \/ typ = JStr(tObject)
                     \/ HasKey(schema, tProperties)
                     \/ HasKey(schema, tAdditionalProperties)
             THEN ObjectType(schema, indent, domain_prefix)
             ELSE IF typ = JStr(tInteger) THEN Ok(tInt)
             ELSE IF typ = JStr(tNumber) THEN Ok(tNumber)
             ELSE IF typ = JStr(tBoolean) THEN Ok(tBool)
             ELSE IF typ = JStr(tString) THEN Ok(tString)
             ELSE Ok(tUnknown))

----------------------------------------------------------------------------
(* More text literals                                                      *)

tName == <<"n","a","m","e">>
tContent == <<"c","o","n","t","e","n","t">>
tApplicationJson == <<"a","p","p","l","i","c","a","t","i","o","n","/","j","s","o","n">>
tSummary == <<"s","u","m","m","a","r","y">>
tTags == <<"t","a","g","s">>
tApi == <<"a","p","i">>
tParameters == <<"p","a","r","a","m","e","t","e","r","s">>
tRequestBody == <<"r","e","q","u","e","s","t","B","o","d","y">>
tResponses == <<"r","e","s","p","o","n","s","e","s">>
tComponents == <<"c","o","m","p","o","n","e","n","t","s">>
tSchemas == <<"s","c","h","e","m","a","s">>
tPaths == <<"p","a","t","h","s">>
tOperation == <<"O","p","e","r","a","t","i","o","n">>
tSearch == <<"s","e","a","r","c","h">>
t200 == <<"2","0","0">>
t201 == <<"2","0","1">>
t202 == <<"2","0","2">>
t204 == <<"2","0","4">>

PUBLIC_HINTS ==
    <<<<"l","o","g","i","n">>,
      <<"r","e","g","i","s","t","e","r">>,
      <<"s","i","g","n"," ","u","p">>,
      <<"s","i","g","n","u","p">>,
      <<"r","e","f","r","e","s","h">>,
      <<"p","a","s","s","w","o","r","d">>,
      <<"r","e","s","e","t">>,
      <<"g","o","o","g","l","e">>,
      <<"o","a","u","t","h">>>>

\* str.upper()
Upper(s) == [i \in DOMAIN s |-> ToUpper(s[i])]

----------------------------------------------------------------------------
(* Ordered mappings (Python dicts) as sequences of <<key, value>> pairs    *)

MapHas(m, k) == \E i \in DOMAIN m : m[i][1] = k
MapGet(m, k) == m[CHOOSE i \in DOMAIN m : m[i][1] = k][2]
\* m[k] = x: overwrite in place when k is present, append otherwise
MapSet(m, k, x) ==
    IF MapHas(m, k)
    THEN [i \in DOMAIN m |-> IF m[i][1] = k THEN <<k, x>> ELSE m[i]]
    ELSE Append(m, <<k, x>>)
MapKeys(m) == {m[i][1] : i \in DOMAIN m}

----------------------------------------------------------------------------
(* Operation Namer and Public-Endpoint Classifier                          *)

\* re.sub(r"[^0-9A-Za-z]+", " ", text).title().replace(" ", "")
NameTransform(text) == ReplaceChar(Title(SubNonAlnum(<<" ">>, text)), " ", <<>>)

\* lines 96-101: the base name, before the registry is consulted
op_base_name(path, method, summary) ==
    LET method_path == method \o <<" ">> \o path
        base == IF summary # <<>> THEN summary ELSE method_path
        s1 == NameTransform(base)
        s2 == IF s1 = <<>> THEN NameTransform(method_path) ELSE s1
    IN  IF s2 = <<>> THEN tOperation ELSE s2

\* mutant: a new base name is registered with counter 1
op_name_from_counting_from_one(path, method, summary, tag, reg) ==
    LET s == op_base_name(path, method, summary)
    IN  IF MapHas(reg, s)
        THEN LET n == MapGet(reg, s) + 1
             IN  [name |-> s \o Str(n), used |-> MapSet(reg, s, n)]
        ELSE [name |-> s, used |-> MapSet(reg, s, 1)]

\* returns the identifier and the registry after the call
op_name_from(path, method, summary, tag, reg) ==
    LET s == op_base_name(path, method, summary)
    IN  IF MapHas(reg, s)
        THEN LET n == MapGet(reg, s) + 1
             IN  [name |-> s \o Str(n), used |-> MapSet(reg, s, n)]
        ELSE [name |-> s, used |-> MapSet(reg, s, 0)]

is_public(summary, path, tag) ==
    LET hay == Lower(Join(<<" ">>, <<summary, path, tag>>))
    IN  \E i \in DOMAIN PUBLIC_HINTS : Contains(hay, PUBLIC_HINTS[i])

----------------------------------------------------------------------------
(* Request Shape Merger                                                    *)

\* params is a sequence of JSON values; the result is an ordered mapping
\* name -> schema.  (A truthy name that is not a string is kept by the code
\* and fails later in cue_ident; the exception is reported here.)
RECURSIVE parse_parameters_from(_, _)
parse_parameters_from(params, fields) ==
    IF params = <<>> THEN Ok(fields)
    ELSE LET p == Head(params)
         IN  IF p.t # "dict" THEN Raise("AttributeError")
             ELSE LET name == GetOr(p, tName, JNull)
                  IN  IF ~Truthy(name)
                      THEN parse_parameters_from(Tail(params), fields)
                      ELSE IF name.t # "str" THEN Raise("TypeError")
                      ELSE parse_parameters_from(Tail(params),
                               MapSet(fields, name.v, GetOr(p, tSchema, EmptyDict)))

parse_parameters(params) == parse_parameters_from(params, <<>>)

\* mutant: the `items` rule is left out
is_non_object_body_without_items(schema) ==
    /\ schema.t = "dict"
    /\ ~HasKey(schema, tRef)
    /\ GetOr(schema, tType, JNull) \in
          {JStr(tArray), JStr(tString), JStr(tInteger), JStr(tNumber), JStr(tBoolean)}

is_non_object_body(schema) ==
    IF schema.t # "dict" THEN FALSE
    ELSE IF HasKey(schema, tRef) THEN FALSE
    ELSE LET t == GetOr(schema, tType, JNull)
         IN  IF t \in {JStr(tArray), JStr(tString), JStr(tInteger),
                        JStr(tNumber), JStr(tBoolean)}
             THEN TRUE
             ELSE IF \/ t = JStr(tObject)
                     \/ HasKey(schema, tProperties)
                     \/ HasKey(schema, tAdditionalProperties)
             THEN FALSE
             ELSE HasKey(schema, tItems)

\* [f"  {cue_ident(k)}: {schema_type(v, 1, True)}" for k, v in params.items()]
RECURSIVE ParamLines(_)
ParamLines(params) ==
    IF params = <<>> THEN Ok(<<>>)
    ELSE Try(schema_type(Head(params)[2], 1, TRUE), LAMBDA ty :
         Try(ParamLines(Tail(params)), LAMBDA rest :
         Ok(<<<<" ", " ">> \o cue_ident(Head(params)[1]) \o <<":", " ">> \o ty>>
            \o rest)))

\* "{\n" + "\n".join(lines) + "\n}"
ParamsBlock(params) ==
    Try(ParamLines(params), LAMBDA lines :
    Ok(<<"{">> \o NL \o Join(NL, lines) \o NL \o <<"}">>))

\* the body expression, with " & " and the parameter record appended when
\* the parameter mapping is non-empty
WithParams(expr, params) ==
    IF params = <<>> THEN Ok(<<expr, TRUE>>)
    ELSE Try(ParamsBlock(params), LAMBDA block :
         Ok(<<expr \o tAnd \o block, TRUE>>))

\* body_schema is JNull for None; the value is <<expression, has_input>>
merge_body_and_params(body_schema, params) ==
    IF body_schema = JNull /\ params = <<>> THEN Ok(<<tEmptyRecord, FALSE>>)
    ELSE IF body_schema.t = "dict" /\ HasKey(body_schema, tRef)
    THEN IF Lookup(body_schema, tRef).t # "str" THEN Raise("AttributeError")
         ELSE WithParams(tDomainDot \o ref_to_ident(Lookup(body_schema, tRef).v), params)
    ELSE IF Truthy(body_schema)
    THEN IF is_non_object_body(body_schema)
         THEN Try(schema_type(body_schema, 1, TRUE), LAMBDA inner :
              WithParams(tBodyField \o inner \o NL \o <<"}">>, params))
         ELSE Try(schema_type(body_schema, 0, TRUE), LAMBDA body :
              WithParams(body, params))
    ELSE Try(ParamsBlock(params), LAMBDA block : Ok(<<block, TRUE>>))

----------------------------------------------------------------------------
(* Response Schema Selector                                                *)

\* content = x.get("content", {}); app_json = content.get("application/json");
\* the schema when `app_json and app_json.get("schema")`, else JNull
AppJsonSchema(x) ==
    IF x.t # "dict" THEN Raise("AttributeError")
    ELSE LET content == GetOr(x, tContent, EmptyDict)
         IN  IF content.t # "dict" THEN Raise("AttributeError")
             ELSE LET app_json == GetOr(content, tApplicationJson, JNull)
                  IN  IF ~Truthy(app_json) THEN Ok(JNull)
                      ELSE IF app_json.t # "dict" THEN Raise("AttributeError")
                      ELSE IF Truthy(GetOr(app_json, tSchema, JNull))
                      THEN Ok(Lookup(app_json, tSchema))
                      ELSE Ok(JNull)

ResponseCodes == <<t200, t201, t202, t204>>

\* mutant: the first present code decides, whatever it is
RECURSIVE response_schema_first_present(_, _)
response_schema_first_present(responses, codes) ==
    IF codes = <<>> THEN Ok(JNull)
    ELSE LET code == Head(codes)
         IN  Try(PyIn(code, responses), LAMBDA present :
             IF ~present THEN response_schema_first_present(responses, Tail(codes))
             ELSE IF responses.t # "dict" THEN Raise("TypeError")
             ELSE AppJsonSchema(Lookup(responses, code)))

RECURSIVE response_schema_from(_, _)
response_schema_from(responses, codes) ==
    IF codes = <<>> THEN Ok(JNull)
    ELSE LET code == Head(codes)
         IN  Try(PyIn(code, responses), LAMBDA present :
             IF ~present THEN response_schema_from(responses, Tail(codes))
             ELSE IF responses.t # "dict" THEN Raise("TypeError")
             ELSE Try(AppJsonSchema(Lookup(responses, code)), LAMBDA found :
                  IF found # JNull THEN Ok(found)
                  ELSE IF code = t204 THEN Ok(JNull)
                  ELSE response_schema_from(responses, Tail(codes))))

response_schema(responses) == response_schema_from(responses, ResponseCodes)

----------------------------------------------------------------------------
(* Document Compiler                                                       *)

\* lines 216-223: the output expression of an operation
OutputExpr(out_schema) ==
    IF out_schema = JNull THEN Ok(tEmptyRecord)
    ELSE IF out_schema.t = "dict" /\ HasKey(out_schema, tRef)
    THEN IF Lookup(out_schema, tRef).t # "str" THEN Raise("AttributeError")
         ELSE Ok(tDomainDot \o ref_to_ident(Lookup(out_schema, tRef).v))
    ELSE schema_type(out_schema, 0, TRUE)

\* lines 199-203: path-level parameters, then the operation's own
OperationParams(methods, op) ==
    Try(IF MapHas(methods, tParameters)
        THEN PyIter(MapGet(methods, tParameters)) ELSE Ok(<<>>), LAMBDA shared :
    Try(IF Truthy(GetOr(op, tParameters, JList(<<>>)))
        THEN PyIter(Lookup(op, tParameters)) ELSE Ok(<<>>), LAMBDA own :
    parse_parameters(shared \o own)))

\* lines 205-211: the JSON request body schema, JNull when there is none
BodySchema(op) ==
    LET req_body == GetOr(op, tRequestBody, EmptyDict)
    IN  IF ~Truthy(req_body) THEN Ok(JNull) ELSE AppJsonSchema(req_body)

\* One iteration of the inner loop (lines 193-236).  acc carries ops,
\* public_ops and used_names; `method` is the key of the path item and `op`
\* its value, whatever they are.
CompileEntry(path, method, op, methods, service_override, acc) ==
    IF op.t # "dict" THEN Raise("AttributeError")
    ELSE
    LET summary == GetOr(op, tSummary, JStr(<<>>)).v
        tags == IF Truthy(GetOr(op, tTags, JNull))
                THEN Lookup(op, tTags).v ELSE <<JStr(tApi)>>
        tag == tags[1].v
        service == IF service_override # <<>> THEN service_override ELSE tag
    IN  Let(op_name_from(path, method, summary, tag, acc.used), LAMBDA named :
        Try(OperationParams(methods, op), LAMBDA param_fields :
        Try(BodySchema(op), LAMBDA body_schema :
        Try(merge_body_and_params(body_schema, param_fields), LAMBDA input :
        Try(response_schema(GetOr(op, tResponses, EmptyDict)), LAMBDA out_schema :
        Try(OutputExpr(out_schema), LAMBDA output :
        Let(is_public(summary, path, tag), LAMBDA public :
        Ok([ops |-> Append(acc.ops,
                       [name |-> named.name,
                        service |-> service,
                        input |-> input[1],
                        output |-> output,
                        method |-> Upper(method),
                        path |-> path,
                        summary |-> summary,
                        public |-> public]),
            public_ops |-> IF public
                           THEN Append(acc.public_ops, named.name)
                           ELSE acc.public_ops,
            used |-> named.used]))))))))

\* for method, op in methods.items(): entries is what is left to visit
RECURSIVE CompileMethods(_, _, _, _, _)
CompileMethods(path, entries, methods, service_override, acc) ==
    IF entries = <<>> THEN Ok(acc)
    ELSE Try(CompileEntry(path, Head(entries)[1], Head(entries)[2],
                          methods, service_override, acc), LAMBDA next :
         CompileMethods(path, Tail(entries), methods, service_override, next))

\* for path, methods in paths.items()
RECURSIVE CompilePaths(_, _, _)
CompilePaths(paths, service_override, acc) ==
    IF paths = <<>> THEN Ok(acc)
    ELSE IF Head(paths)[2].t # "dict" THEN Raise("AttributeError")
    ELSE Try(CompileMethods(Head(paths)[1], Head(paths)[2].v, Head(paths)[2].v,
                            service_override, acc), LAMBDA next :
         CompilePaths(Tail(paths), service_override, next))

\* line 188: the registry every call of generate_from_swagger starts from
used_names == <<>>

\* doc is [readable, data]: json.loads(read_text()) raises when the file is
\* missing or is not JSON.  The value is [schemas, ops, public_ops].
generate_from_swagger(doc, service_override) ==
    IF ~doc.readable THEN Raise("JSONDecodeError")
    ELSE LET data == doc.data
             schemas == GetOr(GetOr(data, tComponents, EmptyDict), tSchemas, EmptyDict)
             paths == GetOr(data, tPaths, EmptyDict)
         IN  Try(CompilePaths(paths.v, service_override,
                     [ops |-> <<>>, public_ops |-> <<>>, used |-> used_names]),
                 LAMBDA r :
             Ok([schemas |-> schemas, ops |-> r.ops, public_ops |-> r.public_ops]))

----------------------------------------------------------------------------
(* Artifact Emitters: the content each writer hands to write_text          *)

\* f"{ident}: {body}"
render_schema_def(name, schema) ==
    Try(schema_type(schema, 0, FALSE), LAMBDA body :
    Ok(cue_ident(name) \o <<":", " ">> \o body))

RECURSIVE RenderTable(_)
RenderTable(schemas) ==
    IF schemas = <<>> THEN Ok(<<>>)
    ELSE Try(render_schema_def(Head(schemas)[1], Head(schemas)[2]), LAMBDA d :
         Try(RenderTable(Tail(schemas)), LAMBDA rest :
         Ok(<<d>> \o rest)))

\* the declarations of write_domain, one per entry of each table in turn
RECURSIVE DomainContent(_)
DomainContent(schemas_list) ==
    IF schemas_list = <<>> THEN Ok(<<>>)
    ELSE IF Head(schemas_list).t # "dict" THEN Raise("AttributeError")
    ELSE Try(RenderTable(Head(schemas_list).v), LAMBDA first :
         Try(DomainContent(Tail(schemas_list)), LAMBDA rest :
         Ok(first \o rest)))

\* the declarations of write_ops
OpsContent(ops) ==
    [i \in DOMAIN ops |->
        [name |-> ops[i].name, service |-> ops[i].service,
         input |-> ops[i].input, output |-> ops[i].output]]

\* the route entries of write_http: description is <<>> (no line) or
\* <<text>>, auth is whether the auth block is emitted
HttpContent(ops) ==
    [i \in DOMAIN ops |->
        [name |-> ops[i].name, method |-> ops[i].method, path |-> ops[i].path,
         description |-> IF ops[i].summary # <<>>
                         THEN <<ReplaceChar(ops[i].summary, "\"", <<"'">>)>>
                         ELSE <<>>,
         auth |-> ~ops[i].public]]

\* sorted(names)
RECURSIVE Sorted(_)
Sorted(names) ==
    IF names = {} THEN <<>>
    ELSE LET least == CHOOSE n \in names : \A m \in names \ {n} : TextLess(n, m)
         IN  <<least>> \o Sorted(names \ {least})

\* the entries of write_public_allowlist
AllowlistContent(public_ops) == Sorted(Range(public_ops))

----------------------------------------------------------------------------
(* Input documents of the batch run                                        *)

MaxPaths == 2

tPing == <<"P","i","n","g">>
tLogin == <<"L","o","g","i","n">>
tGet == <<"g","e","t">>
tPost == <<"p","o","s","t">>
tUsers == <<"u","s","e","r","s">>
tId == <<"i","d">>
tVerbose == <<"v","e","r","b","o","s","e">>
tLoginRequest == <<"L","o","g","i","n","R","e","q","u","e","s","t">>
tLoginResponse == <<"L","o","g","i","n","R","e","s","p","o","n","s","e">>
pPing == <<"/","p","i","n","g">>
pLogin == <<"/","l","o","g","i","n">>
pUser == <<"/","u","s","e","r","s","/","{","i","d","}">>
pReset == <<"/","a","u","t","h","/","r","e","s","e","t">>
pFiles == <<"/","f","i","l","e","s">>
tListFiles == <<"L","i","s","t"," ","F","i","l","e","s">>
tMeta == <<"M","e","t","a">>

Prim(ty) == JDict(<< <<tType, JStr(ty)>> >>)
RefTo(name) == JDict(<< <<tRef, JStr(tComponentsSchemas \o name)>> >>)
\* {"content": {"application/json": {"schema": schema}}}
JsonContent(schema) ==
    JDict(<< <<tContent,
               JDict(<< <<tApplicationJson, JDict(<< <<tSchema, schema>> >>)>> >>)>> >>)
Param(name, schema) == JDict(<< <<tName, JStr(name)>>, <<tSchema, schema>> >>)

opPing ==
    JDict(<< <<tSummary, JStr(tPing)>>,
             <<tResponses, JDict(<< <<t200, JsonContent(Prim(tString))>> >>)>> >>)
opLogin ==
    JDict(<< <<tSummary, JStr(tLogin)>>,
             <<tRequestBody, JsonContent(RefTo(tLoginRequest))>>,
             <<tResponses, JDict(<< <<t200, JsonContent(RefTo(tLoginResponse))>> >>)>> >>)
opUser ==
    JDict(<< <<tTags, JList(<<JStr(tUsers)>>)>>,
             <<tParameters, JList(<<Param(tVerbose, Prim(tBoolean))>>)>>,
             <<tResponses, JDict(<< <<t204, EmptyDict>> >>)>> >>)

opFiles ==
    JDict(<< <<tSummary, JStr(tListFiles)>>,
             <<tResponses, JDict(<< <<t200, JsonContent(RefTo(tMeta))>> >>)>> >>)

\* the path items a document is assembled from: <<path, methods>>
PathPool ==
    { <<pPing, JDict(<< <<tGet, opPing>> >>)>>,
      <<pLogin, JDict(<< <<tPost, opLogin>> >>)>>,
      <<pUser, JDict(<< <<tParameters, JList(<<Param(tId, Prim(tInteger))>>)>>,
                        <<tGet, opUser>> >>)>>,
      <<pReset, JDict(<< <<tGet, opPing>>, <<tPost, opPing>> >>)>>,
      <<pFiles, JDict(<< <<tGet, opFiles>> >>)>> }

RECURSIVE PathLists(_)
PathLists(n) ==
    IF n = 0 THEN {<<>>}
    ELSE LET shorter == PathLists(n - 1)
         IN  shorter \cup
             {Append(l, e) : l \in shorter, e \in PathPool} 

DistinctKeys(m) == \A i, j \in DOMAIN m : m[i][1] = m[j][1] => i = j

\* the component schemas of the login path
LoginSchemas ==
    << <<tLoginRequest,
         JDict(<< <<tType, JStr(tObject)>>,
                  <<tProperties, JDict(<< <<tLogin, Prim(tString)>> >>)>>,
                  <<tRequired, JList(<<JStr(tLogin)>>)>> >>)>>,
       <<tLoginResponse, Prim(tString)>> >>

\* the component schema of the files path: an open object
FilesSchemas ==
    << <<tMeta, JDict(<< <<tType, JStr(tObject)>>,
                         <<tAdditionalProperties, JBool(TRUE)>> >>)>> >>

\* a parsed document: `components` holds the schemas its paths refer to and
\* is missing when there are none
DocumentOf(paths) ==
    LET schemas == (IF MapHas(paths, pLogin) THEN LoginSchemas ELSE <<>>)
                   \o (IF MapHas(paths, pFiles) THEN FilesSchemas ELSE <<>>)
    IN  JDict((IF schemas # <<>>
               THEN << <<tComponents, JDict(<< <<tSchemas, JDict(schemas)>> >>)>> >>
               ELSE <<>>)
              \o << <<tPaths, JDict(paths)>> >>)

Documents ==
    {[readable |-> FALSE, data |-> EmptyDict]} \cup
    {[readable |-> TRUE, data |-> DocumentOf(l)] :
        l \in {m \in PathLists(MaxPaths) : DistinctKeys(m)}}

----------------------------------------------------------------------------
(* main(): compile both documents, then the four writes                    *)

Artifacts == <<"domain", "ops", "http", "allowlist">>

NoResult == [schemas |-> EmptyDict, ops |-> <<>>, public_ops |-> <<>>]

\* an uncaught exception ends main(); `at` is where main() was
Abort(exc) ==
    /\ pc' = "aborted"
    /\ error' = [exc |-> exc, at |-> pc]

NoError == [exc |-> "none", at |-> "none"]

\* Path.write_text(out): the file is replaced, or the call raises OSError
\* either before the file is opened or after it was truncated
write_text(a, content, next) ==
    \/ /\ files' = [files EXCEPT ![a] = [state |-> "written", content |-> content]]
       /\ pc' = next
       /\ UNCHANGED error
    \/ /\ Abort("OSError")
       /\ UNCHANGED files
    \/ /\ Abort("OSError")
       /\ files' = [files EXCEPT ![a] = [state |-> "partial", content |-> <<>>]]

\* line 313
CompileMain ==
    /\ pc = "start"
    /\ \E r \in {generate_from_swagger(doc_main, <<>>)} :
           IF r.exc # "none"
           THEN Abort(r.exc) /\ UNCHANGED res_main
           ELSE /\ res_main' = r.val
                /\ pc' = "compiled_main"
                /\ UNCHANGED error
    /\ UNCHANGED <<doc_main, doc_search, res_search, files>>
    /\ UNCHANGED namerVars /\ UNCHANGED pureVars

\* line 314
CompileSearch ==
    /\ pc = "compiled_main"
    /\ \E r \in {generate_from_swagger(doc_search, tSearch)} :
           IF r.exc # "none"
           THEN Abort(r.exc) /\ UNCHANGED res_search
           ELSE /\ res_search' = r.val
                /\ pc' = "compiled"
                /\ UNCHANGED error
    /\ UNCHANGED <<doc_main, doc_search, res_main, files>>
    /\ UNCHANGED namerVars /\ UNCHANGED pureVars

\* line 316
write_domain ==
    /\ pc = "compiled"
    /\ \E c \in {DomainContent(<<res_main.schemas, res_search.schemas>>)} :
           IF c.exc # "none"
           THEN Abort(c.exc) /\ UNCHANGED files
           ELSE write_text("domain", c.val, "wrote_domain")
    /\ UNCHANGED <<doc_main, doc_search, res_main, res_search>>
    /\ UNCHANGED namerVars /\ UNCHANGED pureVars

\* mutant: a failing write of the operation contracts is swallowed
write_ops_ignoring_failure ==
    /\ pc = "wrote_domain"
    /\ \/ write_text("ops", OpsContent(res_main.ops \o res_search.ops), "wrote_ops")
       \/ /\ pc' = "wrote_ops"
          /\ UNCHANGED <<files, error>>
    /\ UNCHANGED <<doc_main, doc_search, res_main, res_search>>
    /\ UNCHANGED namerVars /\ UNCHANGED pureVars

\* line 317
write_ops ==
    /\ pc = "wrote_domain"
    /\ write_text("ops", OpsContent(res_main.ops \o res_search.ops), "wrote_ops")
    /\ UNCHANGED <<doc_main, doc_search, res_main, res_search>>
    /\ UNCHANGED namerVars /\ UNCHANGED pureVars

\* line 318
write_http ==
    /\ pc = "wrote_ops"
    /\ write_text("http", HttpContent(res_main.ops \o res_search.ops), "wrote_http")
    /\ UNCHANGED <<doc_main, doc_search, res_main, res_search>>
    /\ UNCHANGED namerVars /\ UNCHANGED pureVars

\* line 319
write_public_allowlist ==
    /\ pc = "wrote_http"
    /\ write_text("allowlist",
                  AllowlistContent(res_main.public_ops \o res_search.public_ops), "done")
    /\ UNCHANGED <<doc_main, doc_search, res_main, res_search>>
    /\ UNCHANGED namerVars /\ UNCHANGED pureVars

Init ==
    /\ pc = "start"
    /\ doc_main \in Documents
    /\ doc_search \in Documents
    /\ res_main = NoResult
    /\ res_search = NoResult
    /\ files = [a \in Range(Artifacts) |-> [state |-> "absent", content |-> <<>>]]
    /\ error = NoError
    /\ used = <<>>
    /\ calls = <<>>
    /\ fn = "none"
    /\ arg = <<>>
    /\ out = <<>>

Next ==
    \/ CompileMain
    \/ CompileSearch
    \/ write_domain
    \/ write_ops
    \/ write_http
    \/ write_public_allowlist

Spec == Init /\ [][Next]_vars

----------------------------------------------------------------------------
(* Properties of the batch run                                             *)

\* the concatenated operation list main() hands to write_ops and write_http
AllOps == res_main.ops \o res_search.ops

BothCompiled == pc \in {"compiled", "wrote_domain", "wrote_ops", "wrote_http", "done"}

Written == {a \in Range(Artifacts) : files[a].state = "written"}

\* C1: in one run of main, once both documents are compiled, every two
\* distinct OperationRecords of the concatenated list have different names.
C1_NamesUniqueInBatch ==
    BothCompiled =>
        \A i, j \in DOMAIN AllOps : AllOps[i].name = AllOps[j].name => i = j

\* C4 as stated: a run ends with all four artifacts written or none written.
C4_AllOrNothing ==
    pc \in {"done", "aborted"} => (Written = Range(Artifacts) \/ Written = {})

\* the artifacts main() writes before it reaches artifact number k
Before(k) == {Artifacts[i] : i \in 1..(k - 1)}

\* where main() is when it calls the writer of artifact number k
WriterAt(k) == <<"compiled", "wrote_domain", "wrote_ops", "wrote_http">>[k]

\* C4 amended: the artifacts written are always a prefix of the order domain,
\* ops, http, allowlist; a run that ends normally has written all four; a run
\* ended by anything but a failing write (an unreadable document, a failure
\* while compiling) has touched no file; a run ended by the failing write of
\* artifact k has written exactly the artifacts before k.
C4_WrittenIsPrefix ==
    /\ \E k \in 1..(Len(Artifacts) + 1) : Written = Before(k)
    /\ pc = "done" => Written = Range(Artifacts)
    /\ (pc = "aborted" /\ error.exc # "OSError") =>
            \A a \in Range(Artifacts) : files[a].state = "absent"
    /\ (pc = "aborted" /\ error.exc = "OSError") =>
            \E k \in DOMAIN Artifacts : error.at = WriterAt(k) /\ Written = Before(k)

\* C4 witness: the second write failed after the first succeeded.
C4_Witness ==
    /\ pc = "aborted"
    /\ error = [exc |-> "OSError", at |-> "wrote_domain"]
    /\ Written = {"domain"}

\* the (path, method) pairs a document declares, in document order; the
\* path-level `parameters` entry is not a method
RECURSIVE DeclaredMethods(_)
DeclaredMethods(paths) ==
    IF paths = <<>> THEN <<>>
    ELSE LET path == Head(paths)[1]
             methods == Head(paths)[2].v
             keys == [i \in DOMAIN methods |-> methods[i][1]]
         IN  [i \in 1..Len(SelectSeq(keys, LAMBDA k : k # tParameters)) |->
                 [path |-> path,
                  method |-> SelectSeq(keys, LAMBDA k : k # tParameters)[i],
                  shared |-> IF MapHas(methods, tParameters)
                             THEN MapGet(methods, tParameters).v ELSE <<>>]]
             \o DeclaredMethods(Tail(paths))

\* the rendered field of a parameter in an input expression
ParamField(p) == <<" ", " ">> \o cue_ident(Lookup(p, tName).v) \o <<":", " ">>

\* C5: compiling a readable document raises nothing on account of a
\* path-level `parameters` entry and appends exactly one OperationRecord per
\* declared method, in document order, each carrying the path-level
\* parameters in its input.
C5_OneRecordPerMethod ==
    (pc # "start" /\ doc_main.readable) =>
        LET declared == DeclaredMethods(Lookup(doc_main.data, tPaths).v)
        IN  /\ error.at # "start"
            /\ Len(res_main.ops) = Len(declared)
            /\ \A i \in DOMAIN declared :
                  /\ res_main.ops[i].path = declared[i].path
                  /\ res_main.ops[i].method = Upper(declared[i].method)
                  /\ \A n \in DOMAIN declared[i].shared :
                        Contains(res_main.ops[i].input, ParamField(declared[i].shared[n]))

\* C10: after a complete run, a route entry carries the authentication block
\* exactly when its name has no entry in the public allowlist.
C10_RoutesAgreeWithAllowlist ==
    pc = "done" =>
        \A i \in DOMAIN files["http"].content :
            files["http"].content[i].auth <=>
                files["http"].content[i].name \notin Range(files["allowlist"].content)

----------------------------------------------------------------------------
(* Operation Namer: a sequence of calls sharing one registry               *)

MaxCalls == 3

tGetUser == <<"G","e","t"," ","U","s","e","r">>
tGetUserLower == <<"g","e","t"," "," ","u","s","e","r">>
tGetUser1 == <<"G","e","t"," ","U","s","e","r","1">>
pUsers == <<"/","u","s","e","r","s">>

NamerSummaries == {<<>>, tGetUser, tGetUserLower, tGetUser1}
\* <<method, path>>; the last pair has no letter or digit at all
NamerRoutes == {<<tGet, pUsers>>, <<tPost, pUsers>>, <<<<"-">>, <<"/">>>>}

\* one call of op_name_from on the shared registry; the history keeps the
\* arguments, the base name the call produced (lines 96-101), the result and
\* the registry before and after
NamerCall ==
    /\ Len(calls) < MaxCalls
    /\ \E summary \in NamerSummaries, route \in NamerRoutes :
         \E r \in {op_name_from(route[2], route[1], summary, tApi, used)} :
            /\ used' = r.used
            /\ calls' = Append(calls, [path |-> route[2], method |-> route[1],
                                       summary |-> summary,
                                       base |-> op_base_name(route[2], route[1], summary),
                                       name |-> r.name,
                                       before |-> used, after |-> r.used])
    /\ UNCHANGED mainVars /\ UNCHANGED pureVars

InitNamer ==
    /\ pc = "namer"
    /\ doc_main = [readable |-> FALSE, data |-> EmptyDict]
    /\ doc_search = [readable |-> FALSE, data |-> EmptyDict]
    /\ res_main = NoResult
    /\ res_search = NoResult
    /\ files = [a \in Range(Artifacts) |-> [state |-> "absent", content |-> <<>>]]
    /\ error = NoError
    /\ used = <<>>
    /\ calls = <<>>
    /\ fn = "none"
    /\ arg = <<>>
    /\ out = <<>>

NextNamer == NamerCall

SpecNamer == InitNamer /\ [][NextNamer]_vars

\* C2: the identifiers returned by calls sharing one registry are pairwise
\* distinct.
C2_NamesPairwiseDistinct ==
    \A i, j \in DOMAIN calls : calls[i].name = calls[j].name => i = j

\* the base name call number i produces
BaseOf(i) == calls[i].base

\* how many of the first i calls produce the base name of call i
Occurrence(i) == Cardinality({j \in 1..i : BaseOf(j) = BaseOf(i)})

\* C3: the k-th call producing a base name returns it unchanged when k = 1
\* and followed by the decimal number k-1 otherwise; after the call the
\* registry maps the base name to k-1, and every other entry is as before.
C3_OccurrenceNumbering ==
    \A i \in DOMAIN calls :
        /\ calls[i].name = IF Occurrence(i) = 1 THEN BaseOf(i)
                           ELSE BaseOf(i) \o Str(Occurrence(i) - 1)
        /\ MapHas(calls[i].after, BaseOf(i))
        /\ MapGet(calls[i].after, BaseOf(i)) = Occurrence(i) - 1
        /\ MapKeys(calls[i].after) = MapKeys(calls[i].before) \cup {BaseOf(i)}
        /\ \A b \in MapKeys(calls[i].before) \ {BaseOf(i)} :
              MapGet(calls[i].after, b) = MapGet(calls[i].before, b)

\* C3 witness: a third occurrence of a base name, suffixed 2, after two
\* calls of which the first was left unsuffixed.
C3_Witness ==
    /\ Len(calls) = 3
    /\ calls[1].name = <<"G","e","t","U","s","e","r">>
    /\ calls[3].name = <<"G","e","t","U","s","e","r","2">>
    /\ MapGet(used, calls[1].name) = 2

----------------------------------------------------------------------------
(* The translation functions applied to inputs drawn from bounded sets     *)

MaxDepth == 1

tUser == <<"U","s","e","r">>
tUserName == <<"u","s","e","r","-","n","a","m","e">>
tFile == <<"f","i","l","e">>
tQ == <<"q">>
rUser == tComponentsSchemas \o tUser
rUserProfile == tComponentsSchemas \o <<"u","s","e","r","-","p","r","o","f","i","l","e">>
rNested == tComponentsSchemas \o <<"n","e","s","t","e","d","/","N","a","m","e">>
rDefinitions == <<"#","/","d","e","f","i","n","i","t","i","o","n","s","/","U","s","e","r">>
rResponses == <<"#","/","c","o","m","p","o","n","e","n","t","s","/","r","e","s","p","o","n","s","e","s","/","E","r","r","o","r">>

Refs == {rUser, rUserProfile, rNested, rDefinitions, rResponses}

RefNode(ref) == JDict(<< <<tRef, JStr(ref)>> >>)
ObjectOf(name, schema, required) ==
    JDict(<< <<tType, JStr(tObject)>>,
             <<tProperties, JDict(<< <<name, schema>> >>)>>,
             <<tRequired, JList(required)>> >>)

\* nodes without children; the last three are not schema descriptors
LeafNodes ==
    {EmptyDict, Prim(tString), Prim(tInteger), Prim(tNumber), Prim(tBoolean),
     Prim(tFile), Prim(tObject),
     JDict(<< <<tRef, JStr(rUser)>>, <<tType, JStr(tObject)>> >>)}
    \cup {RefNode(r) : r \in Refs}
    \cup {JBool(TRUE), JBool(FALSE), JStr(tString)}

\* nodes with the child s
Wrap(s) ==
    { JDict(<< <<tType, JStr(tArray)>>, <<tItems, s>> >>),
      ObjectOf(tId, s, <<JStr(tId)>>),
      ObjectOf(tUserName, s, <<>>),
      JDict(<< <<tAdditionalProperties, s>> >>),
      JDict(<< <<tAllOf, JList(<<s, Prim(tInteger)>>)>> >>),
      JDict(<< <<tOneOf, JList(<<Prim(tString), s>>)>> >>),
      JDict(<< <<tAnyOf, JList(<<s>>)>> >>) }

RECURSIVE SchemaNodes(_)
SchemaNodes(depth) ==
    IF depth = 0 THEN LeafNodes
    ELSE LeafNodes \cup UNION {Wrap(s) : s \in SchemaNodes(depth - 1)}

\* request bodies as generate_from_swagger passes them: None or a non-empty
\* schema
Bodies ==
    {JNull, RefNode(rUser), RefNode(rDefinitions),
     JDict(<< <<tRef, JStr(rUser)>>, <<tType, JStr(tArray)>> >>),
     Prim(tString), Prim(tInteger), Prim(tNumber), Prim(tBoolean), Prim(tFile),
     JDict(<< <<tType, JStr(tArray)>>, <<tItems, RefNode(rUser)>> >>),
     JDict(<< <<tItems, Prim(tString)>> >>),
     JDict(<< <<tItems, Prim(tString)>>, <<tType, JStr(tObject)>> >>),
     JDict(<< <<tItems, Prim(tString)>>, <<tProperties, EmptyDict>> >>),
     JDict(<< <<tItems, Prim(tString)>>, <<tAdditionalProperties, Prim(tInteger)>> >>),
     JDict(<< <<tType, JStr(tString)>>, <<tProperties, EmptyDict>> >>),
     Prim(tObject),
     ObjectOf(tId, Prim(tInteger), <<JStr(tId)>>),
     ObjectOf(tUserName, RefNode(rUser), <<>>),
     JDict(<< <<tAdditionalProperties, Prim(tString)>> >>),
     JDict(<< <<tAdditionalProperties, JBool(TRUE)>> >>),
     JDict(<< <<tAllOf, JList(<<RefNode(rUser), Prim(tObject)>>)>> >>)}

\* parameter mappings as parse_parameters returns them
ParamMaps ==
    {<<>>,
     << <<tId, Prim(tInteger)>> >>,
     << <<tUserName, Prim(tString)>>, <<tQ, EmptyDict>> >>,
     << <<tId, RefNode(rUser)>>, <<tQ, JBool(TRUE)>> >>}

\* a response object: absent from the mapping, without JSON content, with
\* JSON content without (or with an empty) schema, or with a schema
ResponseShapes(schema) ==
    {JNull, EmptyDict,
     JDict(<< <<tContent, JDict(<< <<tApplicationJson, EmptyDict>> >>)>> >>),
     JsonContent(EmptyDict), JsonContent(schema)}

t404 == <<"4","0","4">>

\* the mapping with the given response per code (JNull: the code is absent)
ResponsesOf(r200, r201, r202, r204, r404) ==
    JDict(SelectSeq(<< <<t404, r404>>, <<t204, r204>>, <<t200, r200>>,
                       <<t201, r201>>, <<t202, r202>> >>,
                    LAMBDA e : e[2] # JNull))

ResponseMaps ==
    {ResponsesOf(a, b, c, d, e) :
        a \in ResponseShapes(Prim(tString)),
        b \in ResponseShapes(RefNode(rUser)),
        c \in {JNull, EmptyDict, JsonContent(Prim(tInteger))},
        d \in {JNull, EmptyDict, JsonContent(Prim(tBoolean))},
        e \in {JNull, JsonContent(Prim(tNumber))}}

PureInputs ==
    {[f |-> "schema_type", schema |-> n, indent |-> i, domain_prefix |-> q] :
        n \in {d \in SchemaNodes(MaxDepth) : d.t = "dict"}, i \in {0, 1}, q \in BOOLEAN}
    \cup {[f |-> "merge_body_and_params", body_schema |-> b, params |-> p] :
        b \in Bodies, p \in ParamMaps}
    \cup {[f |-> "response_schema", responses |-> r] : r \in ResponseMaps}

ApplySchemaType ==
    /\ fn = "none" /\ arg.f = "schema_type"
    /\ fn' = arg.f
    /\ out' = schema_type(arg.schema, arg.indent, arg.domain_prefix)
    /\ UNCHANGED arg /\ UNCHANGED mainVars /\ UNCHANGED namerVars

ApplyMerge ==
    /\ fn = "none" /\ arg.f = "merge_body_and_params"
    /\ fn' = arg.f
    /\ out' = merge_body_and_params(arg.body_schema, arg.params)
    /\ UNCHANGED arg /\ UNCHANGED mainVars /\ UNCHANGED namerVars

ApplyResponseSchema ==
    /\ fn = "none" /\ arg.f = "response_schema"
    /\ fn' = arg.f
    /\ out' = response_schema(arg.responses)
    /\ UNCHANGED arg /\ UNCHANGED mainVars /\ UNCHANGED namerVars

InitPure ==
    /\ pc = "pure"
    /\ doc_main = [readable |-> FALSE, data |-> EmptyDict]
    /\ doc_search = [readable |-> FALSE, data |-> EmptyDict]
    /\ res_main = NoResult
    /\ res_search = NoResult
    /\ files = [a \in Range(Artifacts) |-> [state |-> "absent", content |-> <<>>]]
    /\ error = NoError
    /\ used = <<>>
    /\ calls = <<>>
    /\ fn = "none"
    /\ arg \in PureInputs
    /\ out = <<>>

NextPure ==
    \/ ApplySchemaType
    \/ ApplyMerge
    \/ ApplyResponseSchema

SpecPure == InitPure /\ [][NextPure]_vars

----------------------------------------------------------------------------
(* Properties of the translation functions                                 *)

\* the response object of a code carries a (non-empty) JSON schema
CarriesSchema(responses, code) ==
    /\ HasKey(responses, code)
    /\ HasKey(Lookup(responses, code), tContent)
    /\ HasKey(Lookup(Lookup(responses, code), tContent), tApplicationJson)
    /\ HasKey(Lookup(Lookup(Lookup(responses, code), tContent), tApplicationJson),
              tSchema)
    /\ Truthy(Lookup(Lookup(Lookup(Lookup(responses, code), tContent),
                            tApplicationJson), tSchema))

CarriedSchema(responses, code) ==
    Lookup(Lookup(Lookup(Lookup(responses, code), tContent), tApplicationJson), tSchema)

\* C6: response_schema returns the schema of the first of 200, 201, 202, 204
\* that is present and carries a schema, and none when there is no such code;
\* no other code contributes.
C6_FirstCodeWithSchema ==
    fn = "response_schema" =>
        LET order == <<t200, t201, t202, t204>>
            carrying == {i \in DOMAIN order : CarriesSchema(arg.responses, order[i])}
        IN  IF carrying = {} THEN out = Ok(JNull)
            ELSE \E i \in carrying :
                    /\ \A j \in carrying : i <= j
                    /\ out = Ok(CarriedSchema(arg.responses, order[i]))

\* C6 witness: 200 is present without a schema, 201 carries one, and so does
\* a code outside the candidates; the schema of 201 is selected.
C6_Witness ==
    /\ fn = "response_schema"
    /\ arg.responses = ResponsesOf(EmptyDict, JsonContent(RefNode(rUser)), JNull, JNull,
                                   JsonContent(Prim(tNumber)))
    /\ out = Ok(RefNode(rUser))

\* C7: schema_type raises for no schema node.
C7_TranslatorNeverRaises ==
    fn = "schema_type" => out.exc = "none"

\* the body categories of the decision table
IsReferenceBody(b) == b.t = "dict" /\ HasKey(b, tRef)

IsNonObjectBody(b) ==
    /\ b.t = "dict"
    /\ ~HasKey(b, tRef)
    /\ \/ GetOr(b, tType, JNull) \in
            {JStr(tArray), JStr(tString), JStr(tInteger), JStr(tNumber), JStr(tBoolean)}
       \/ /\ HasKey(b, tItems)
          /\ GetOr(b, tType, JNull) # JStr(tObject)
          /\ ~HasKey(b, tProperties)
          /\ ~HasKey(b, tAdditionalProperties)

\* the expression the decision table gives for a body that is present
TableBodyExpr(b) ==
    IF IsReferenceBody(b) THEN Ok(tDomainDot \o ref_to_ident(Lookup(b, tRef).v))
    ELSE IF IsNonObjectBody(b)
    THEN Try(schema_type(b, 1, TRUE), LAMBDA ty :
         Ok(<<"{">> \o NL \o <<" ", " ", "b", "o", "d", "y", ":", " ">> \o ty
             \o NL \o <<"}">>))
    ELSE schema_type(b, 0, TRUE)

\* the result the decision table gives; an exception of the Translator
\* propagates
TableResult(b, params) ==
    IF b = JNull
    THEN IF params = <<>> THEN Ok(<<tEmptyRecord, FALSE>>)
         ELSE Try(ParamsBlock(params), LAMBDA record : Ok(<<record, TRUE>>))
    ELSE Try(TableBodyExpr(b), LAMBDA expr :
         IF params = <<>> THEN Ok(<<expr, TRUE>>)
         ELSE Try(ParamsBlock(params), LAMBDA record :
              Ok(<<expr \o <<" ", "&", " ">> \o record, TRUE>>)))

\* C8: merge_body_and_params follows the decision table, and has-input is
\* false exactly when the body is absent and there are no parameters.
C8_DecisionTable ==
    fn = "merge_body_and_params" =>
        /\ out = TableResult(arg.body_schema, arg.params)
        /\ out.exc = "none" =>
              (out.val[2] = FALSE <=> (arg.body_schema = JNull /\ arg.params = <<>>))

\* C8 witness: a body with an `items` key and no object marker, with
\* parameters: wrapped under `body` and intersected with the record.
C8_Witness ==
    /\ fn = "merge_body_and_params"
    /\ arg.body_schema = JDict(<< <<tItems, Prim(tString)>> >>)
    /\ arg.params = << <<tId, Prim(tInteger)>> >>
    /\ out = Ok(<<<<"{","\n"," "," ","b","o","d","y",":"," ","_","\n","}"," ","&"," ","{","\n"," "," ","i","d",":"," ","i","n","t","\n","}">>, TRUE>>)

\* the text after the last "/" of a reference
RECURSIVE TrailingSegment(_)
TrailingSegment(ref) ==
    IF "/" \notin Range(ref) THEN ref
    ELSE TrailingSegment(SubSeq(ref, IndexOf("/", ref) + 1, Len(ref)))

IsReferenceNode(n) == n.t = "dict" /\ HasKey(n, tRef) /\ Lookup(n, tRef).t = "str"

Qualifier(q) == IF q THEN <<"d", "o", "m", "a", "i", "n", ".">> ELSE <<>>

\* C9 as stated: every reference resolves to the Normalizer applied to its
\* trailing path segment, qualified exactly when the flag is set.
C9_TrailingSegment ==
    (fn = "schema_type" /\ IsReferenceNode(arg.schema)) =>
        out = Ok(Qualifier(arg.domain_prefix)
                 \o cue_ident(TrailingSegment(Lookup(arg.schema, tRef).v)))

\* C9 amended: a reference that starts with "#/components/schemas/" resolves
\* to the Normalizer applied to the text after that prefix, any other
\* reference to the Normalizer applied to the whole reference string;
\* qualified exactly when the flag is set.
C9_PrefixStripped ==
    (fn = "schema_type" /\ IsReferenceNode(arg.schema)) =>
        LET ref == Lookup(arg.schema, tRef).v
            prefix == tComponentsSchemas
            named == IF Len(ref) >= Len(prefix) /\ SubSeq(ref, 1, Len(prefix)) = prefix
                     THEN SubSeq(ref, Len(prefix) + 1, Len(ref))
                     ELSE ref
        IN  out = Ok(Qualifier(arg.domain_prefix) \o cue_ident(named))

\* C9 witness: a qualified reference outside "#/components/schemas/".
C9_Witness ==
    /\ fn = "schema_type"
    /\ arg.schema = RefNode(rDefinitions)
    /\ arg.domain_prefix
    /\ out = Ok(<<"d","o","m","a","i","n",".","d","e","f","i","n","i","t","i","o","n","s","_","U","s","e","r">>)
====
